---- MODULE Spec2Model ----
(***************************************************************************)
(* Model of the company-mapping tasks:                                     *)
(*   src/tasks/validation.py  parse_openai_response, process_csv_and_save  *)
(*   src/tasks/mapping.py     get_osm_coordinates, generate_germany_map    *)
(*                                                                         *)
(* A Python str is a sequence of tokens.  A token is either one of the     *)
(* characters the code looks at (":", " ", ",", "_", "\n") or a word, a    *)
(* run of characters that holds none of them.  None is NoneResponse.       *)
(***************************************************************************)
EXTENDS Integers, Sequences, FiniteSets, TLC

VARIABLES
    response,   \* parse_openai_response: its argument
    parsed,     \* parse_openai_response: the returned triple, <<>> before the call
    ppc,        \* parse_openai_response: "ready" before the call, "done" after
    \* ---- mapping.py
    direct,             \* TRUE: get_osm_coordinates is called for each city by a
                        \* caller that does no cache check of its own;
                        \* FALSE: generate_germany_map runs
    cities,             \* df_germany['City'].unique()
    retries,            \* get_osm_coordinates: its retries parameter
    city_coords_cache,  \* the coordinate cache in memory
    city_coords,        \* generate_germany_map: the location-keyed output
    coord_file,         \* cache/city_coords_cache.json
    gi,                 \* position in cities of the city at hand
    gpc,                \* "loop", "attempting", "returned", "done", "crashed"
    attempt,            \* get_osm_coordinates: the loop variable
    backoff_factor,     \* get_osm_coordinates: the current backoff
    replies,            \* what the service answered to this call's requests
    sleeps,             \* the time.sleep arguments since the last call that
                        \* went to the network began
    requests,           \* number of requests.get calls of the run
    result,             \* what get_osm_coordinates returned last
    \* ---- validation.py, process_csv_and_save
    columns,            \* df.columns
    rows,               \* the rows of the input CSV
    cache,              \* the ResponseCache in memory
    cache_file,         \* cache/openai_cache.json
    run,                \* 1: the first run over the input, 2: the second
    pc,                 \* "start", "row", "codes", "written", "aborted", "fatal"
    ri,                 \* position in rows of the row at hand
    strategy_codes,     \* the split RE_Strategy_Codes of the row at hand
    ci,                 \* position in strategy_codes of the code at hand
    row_agreements, row_strategies, row_explanations,
    openai_agreements, openai_strategies, openai_explanations,
    output,             \* the three columns added to the output CSV; NoFile
    calls,              \* number of get_openai_response calls of this run
    lookups,            \* number of "cache_key in cache" tests of this run
    saves,              \* number of save_cache calls of this run
    received,           \* the <<key, response>> pairs the endpoint returned
    raised,             \* the keys for which a call of the endpoint raised
    errors,             \* row position -> message of the exception caught
                        \* for that row in this run
    history             \* what the first run left behind, for the second

parseVars == <<response, parsed, ppc>>

geoVars == <<direct, cities, retries, city_coords_cache, city_coords, coord_file,
             gi, gpc, attempt, backoff_factor, replies, sleeps, requests, result>>

rowLists == <<row_agreements, row_strategies, row_explanations>>

outLists == <<openai_agreements, openai_strategies, openai_explanations>>

cacheVars == <<cache, cache_file, calls, lookups, saves, received, raised>>

rowVars == <<columns, rows, run, pc, ri, strategy_codes, ci, rowLists, outLists,
             output, cacheVars, errors, history>>

vars == <<parseVars, geoVars, rowVars>>

-----------------------------------------------------------------------------
(* Python str operations                                                   *)

StartsWith(s, p) == Len(s) >= Len(p) /\ SubSeq(s, 1, Len(p)) = p

\* the positions of s where sep occurs
Occurrences(s, sep) == {i \in 1..Len(s) : StartsWith(SubSeq(s, i, Len(s)), sep)}

Min(S) == CHOOSE m \in S : \A n \in S : m <= n

\* str.split(sep): every occurrence of sep, left to right, cuts the string
RECURSIVE SplitAll(_, _)
SplitAll(s, sep) ==
    IF Occurrences(s, sep) = {}
    THEN <<s>>
    ELSE LET i == Min(Occurrences(s, sep))
         IN  <<SubSeq(s, 1, i - 1)>> \o SplitAll(SubSeq(s, i + Len(sep), Len(s)), sep)

Split(s, sep) == SplitAll(s, sep)

Whitespace == {" ", "\n"}

RECURSIVE LStrip(_)
LStrip(s) == IF s # <<>> /\ Head(s) \in Whitespace THEN LStrip(Tail(s)) ELSE s

RECURSIVE RStrip(_)
RStrip(s) ==
    IF s # <<>> /\ s[Len(s)] \in Whitespace THEN RStrip(SubSeq(s, 1, Len(s) - 1)) ELSE s

\* str.strip()
Strip(s) == RStrip(LStrip(s))

\* "".join(parts): the parts with no separator between them
RECURSIVE JoinWithoutSeparator(_, _)
JoinWithoutSeparator(parts, sep) ==
    IF parts = <<>> THEN <<>>
    ELSE parts[1] \o JoinWithoutSeparator(Tail(parts), sep)

\* sep.join(parts)
RECURSIVE Join(_, _)
Join(parts, sep) ==
    IF parts = <<>> THEN <<>>
    ELSE IF Len(parts) = 1 THEN parts[1]
    ELSE parts[1] \o sep \o Join(Tail(parts), sep)

ColonSpace == <<":", " ">>
CommaSpace == <<",", " ">>
Newline == <<"\n">>

-----------------------------------------------------------------------------
(* parse_openai_response                                                   *)

\* None: a one-token value whose token is no character and no word of any text
NoneResponse == <<"None">>

ErrorTriple == <<(<<"Error">>), (<<"Error">>), (<<"Error">>)>>

Disagree == <<"Disagree">>

\* an exception raised inside the try block, by its Python class
Raised(kind) == <<"raise", kind>>

IsRaised(v) == Len(v) = 2

\* lines[n].split(": ")[1] raises IndexError when the list has one element
HasField(line) == Len(Split(line, ColonSpace)) >= 2

\* the last piece of the split instead of the second: split(": ")[-1]
FieldLast(line) == Strip(Split(line, ColonSpace)[Len(Split(line, ColonSpace))])

Field(line) == Strip(Split(line, ColonSpace)[2])

\* an explanation that is read whenever a third line exists
ReadsExplanationAnyAgreement(agreement, lines) == Len(lines) > 2

\* if agreement == "Disagree" and len(lines) > 2
ReadsExplanation(agreement, lines) == agreement = Disagree /\ Len(lines) > 2

\* the body of the try block: the triple, or the exception that leaves it
Extract(r) ==
    IF r = NoneResponse THEN Raised("AttributeError")       \* None.split
    ELSE LET lines == Split(r, Newline) IN
         IF ~HasField(lines[1]) THEN Raised("IndexError")   \* lines[0].split(": ")[1]
         ELSE IF Len(lines) < 2 THEN Raised("IndexError")   \* lines[1]
         ELSE IF ~HasField(lines[2]) THEN Raised("IndexError")
         ELSE LET agreement == Field(lines[1])
                  strategy == Field(lines[2])
              IN  IF ReadsExplanation(agreement, lines)
                  THEN IF ~HasField(lines[3]) THEN Raised("IndexError")
                       ELSE <<agreement, strategy, Field(lines[3])>>
                  ELSE <<agreement, strategy, <<>> >>

\* a handler that catches IndexError alone
ParseCatchingIndexError(r) ==
    IF Extract(r) = Raised("IndexError") THEN ErrorTriple ELSE Extract(r)

\* except Exception: every exception of the try block gives the sentinel
ParseOpenaiResponse(r) ==
    IF IsRaised(Extract(r)) THEN ErrorTriple ELSE Extract(r)

-----------------------------------------------------------------------------
(* Python dict                                                             *)

EmptyMap == [c \in {} |-> <<>>]

Put(map, key, value) == [k \in DOMAIN map \cup {key} |-> IF k = key THEN value ELSE map[k]]

-----------------------------------------------------------------------------
(* validation.py: process_csv_and_save, the state while it does not run    *)

NoFile == <<>>

RowsIdle ==
    /\ columns = {}
    /\ rows = <<>>
    /\ cache = EmptyMap
    /\ cache_file = EmptyMap
    /\ run = 1
    /\ pc = "idle"
    /\ ri = 1
    /\ strategy_codes = <<>>
    /\ ci = 1
    /\ row_agreements = <<>> /\ row_strategies = <<>> /\ row_explanations = <<>>
    /\ openai_agreements = <<>> /\ openai_strategies = <<>>
    /\ openai_explanations = <<>>
    /\ output = NoFile
    /\ calls = 0 /\ lookups = 0 /\ saves = 0
    /\ received = {}
    /\ raised = {}
    /\ errors = EmptyMap
    /\ history = <<>>

-----------------------------------------------------------------------------
(* mapping.py: get_osm_coordinates and generate_germany_map                *)

DefaultRetries == 5
DefaultBackoff == 1
MaxRetries == 5
MaxCities == 2

CityPool == {"Berlin", "Bonn"}

\* the lat and lon strings of the first result of a 200 answer
LatLonTexts == {<<"52.5", "13.4">>, <<"0.0", "9.0">>}

\* float(text), in tenths of a degree
Float(text) ==
    CASE text = "52.5" -> 525
      [] text = "13.4" -> 134
      [] text = "9.0" -> 90
      [] text = "0.0" -> 0

\* (None, None)
NotFound == <<>>

\* an answer of the geocoding service: 200 with a result, 200 with an empty
\* list, 429, another status, or no answer at all (requests.get raises)
Replies ==
    {[status |-> 200, data |-> d] : d \in LatLonTexts}
    \cup {[status |-> 200, data |-> <<>>], [status |-> 429, data |-> <<>>],
          [status |-> 500, data |-> <<>>], [status |-> 0, data |-> <<>>]}

NetworkError(reply) == reply.status = 0

\* get_osm_coordinates never looks into its cache
NeverCached(known, city) == FALSE

\* if cache and city in cache
Cached(known, city) == known # EmptyMap /\ city \in DOMAIN known

\* a backoff that grows by one second
BackoffPlusOne(b) == b + 1

\* backoff_factor *= 2
NextBackoff(b) == b * 2

\* a loop that makes one attempt more than retries
MoreAttemptsOffByOne(done, total) == done < total + 1

\* for attempt in range(retries): another pass after done passes
MoreAttempts(done, total) == done < total

\* if lat and lon: a float is true unless it is zero
Truthy(x) == x # 0

GeoIdle ==
    /\ direct = FALSE
    /\ cities = <<>>
    /\ retries = DefaultRetries
    /\ city_coords_cache = EmptyMap
    /\ city_coords = EmptyMap
    /\ coord_file = EmptyMap
    /\ gi = 1
    /\ gpc = "idle"
    /\ attempt = 0
    /\ backoff_factor = DefaultBackoff
    /\ replies = <<>>
    /\ sleeps = <<>>
    /\ requests = 0
    /\ result = NotFound

UniqueCities ==
    {cs \in UNION {[1..n -> CityPool] : n \in 0..MaxCities} :
        \A i, j \in 1..Len(cs) : i # j => cs[i] # cs[j]}

\* what float() gave for the entries of a cache file written by an earlier run
CachedCoords == {<<Float(d[1]), Float(d[2])>> : d \in LatLonTexts}

CacheFiles == UNION {[S -> CachedCoords] : S \in SUBSET CityPool}

ParseIdle ==
    /\ response = NoneResponse
    /\ parsed = <<>>
    /\ ppc = "idle"

\* load_cache, and the state before the first city
GeoInit ==
    /\ ParseIdle
    /\ RowsIdle
    /\ direct \in BOOLEAN
    /\ cities \in UniqueCities
    /\ retries \in IF direct THEN 0..MaxRetries ELSE {DefaultRetries}
    /\ coord_file \in CacheFiles
    /\ city_coords_cache = coord_file
    /\ city_coords = EmptyMap
    /\ gi = 1
    /\ gpc = "loop"
    /\ attempt = 0
    /\ backoff_factor = DefaultBackoff
    /\ replies = <<>>
    /\ sleeps = <<>>
    /\ requests = 0
    /\ result = NotFound

City == cities[gi]

\* generate_germany_map, lines 88-90: the city is in the cache
UseCached ==
    /\ gpc = "loop" /\ gi <= Len(cities) /\ ~direct
    /\ City \in DOMAIN city_coords_cache
    /\ city_coords' = Put(city_coords, City, city_coords_cache[City])
    /\ gi' = gi + 1
    /\ UNCHANGED <<direct, cities, retries, city_coords_cache, coord_file, gpc,
                   attempt, backoff_factor, replies, sleeps, requests, result>>

\* the call of get_osm_coordinates, up to its first request
CallResolve ==
    /\ gpc = "loop" /\ gi <= Len(cities)
    /\ direct \/ City \notin DOMAIN city_coords_cache
    /\ IF Cached(city_coords_cache, City)
       THEN /\ result' = city_coords_cache[City]
            /\ gpc' = "returned"
            /\ UNCHANGED <<attempt, backoff_factor, replies, sleeps>>
       ELSE /\ attempt' = 0
            /\ backoff_factor' = DefaultBackoff
            /\ replies' = <<>>
            /\ sleeps' = <<>>
            /\ IF MoreAttempts(0, retries)
               THEN result' = result /\ gpc' = "attempting"
               ELSE result' = NotFound /\ gpc' = "returned"
    /\ UNCHANGED <<direct, cities, retries, city_coords_cache, city_coords,
                   coord_file, gi, requests>>

\* one pass of the for loop of get_osm_coordinates: a request and its answer
Attempt(reply) ==
    /\ gpc = "attempting"
    /\ requests' = requests + 1
    /\ replies' = Append(replies, reply)
    /\ IF NetworkError(reply)
       THEN /\ gpc' = "crashed"
            /\ UNCHANGED <<attempt, backoff_factor, sleeps, result>>
       ELSE IF reply.status = 200 /\ reply.data # <<>>
       THEN /\ result' = <<Float(reply.data[1]), Float(reply.data[2])>>
            /\ gpc' = "returned"
            /\ UNCHANGED <<attempt, backoff_factor, sleeps>>
       ELSE /\ sleeps' = Append(sleeps, backoff_factor)
            /\ backoff_factor' = NextBackoff(backoff_factor)
            /\ attempt' = attempt + 1
            /\ IF MoreAttempts(attempt + 1, retries)
               THEN result' = result /\ gpc' = "attempting"
               ELSE result' = NotFound /\ gpc' = "returned"
    /\ UNCHANGED <<direct, cities, retries, city_coords_cache, city_coords,
                   coord_file, gi>>

\* generate_germany_map, lines 94-100: what the caller does with the result
Return ==
    /\ gpc = "returned"
    /\ IF ~direct /\ result # NotFound /\ Truthy(result[1]) /\ Truthy(result[2])
       THEN /\ city_coords' = Put(city_coords, City, result)
            /\ city_coords_cache' = Put(city_coords_cache, City, result)
            /\ sleeps' = Append(sleeps, 1)
       ELSE UNCHANGED <<city_coords, city_coords_cache, sleeps>>
    /\ gi' = gi + 1
    /\ gpc' = "loop"
    /\ UNCHANGED <<direct, cities, retries, coord_file, attempt, backoff_factor,
                   replies, requests, result>>

\* a save_cache that leaves the file as it is
KeepCoordFile(mapping, file) == file

\* mapping.py, save_cache: json.dump of the whole mapping over the old file
SaveCoordFile(mapping, file) == mapping

\* generate_germany_map, line 102: save_cache after the last city
SaveCache ==
    /\ gpc = "loop" /\ gi > Len(cities)
    /\ coord_file' = IF direct THEN coord_file
                     ELSE SaveCoordFile(city_coords_cache, coord_file)
    /\ gpc' = "done"
    /\ UNCHANGED <<direct, cities, retries, city_coords_cache, city_coords, gi,
                   attempt, backoff_factor, replies, sleeps, requests, result>>

GeoNext ==
    \/ UseCached /\ UNCHANGED <<parseVars, rowVars>>
    \/ CallResolve /\ UNCHANGED <<parseVars, rowVars>>
    \/ (\E reply \in Replies : Attempt(reply)) /\ UNCHANGED <<parseVars, rowVars>>
    \/ Return /\ UNCHANGED <<parseVars, rowVars>>
    \/ SaveCache /\ UNCHANGED <<parseVars, rowVars>>

GeoSpec == GeoInit /\ [][GeoNext]_vars

-----------------------------------------------------------------------------
(* Claims about the geocoding client, checked under GeoSpec                *)

AtCity == gpc \in {"loop", "returned"} /\ gi <= Len(cities)

\* C2: for a city that is in the coordinate cache, neither the call of
\* get_osm_coordinates nor the caller's handling of the city issues a request
\* or sleeps, and the cached coordinates are what is returned and recorded.
C2_CachedCityNoRequestNoSleep ==
    [][(AtCity /\ City \in DOMAIN city_coords_cache) =>
          /\ requests' = requests
          /\ sleeps' = sleeps
          /\ (direct /\ gpc = "loop") =>
                (gpc' = "returned" /\ result' = city_coords_cache[City])
          /\ (~direct /\ gpc = "loop") =>
                (gpc' = "loop" /\ City \in DOMAIN city_coords'
                 /\ city_coords'[City] = city_coords_cache[City])]_vars

\* get_osm_coordinates has returned a cached city's coordinates after an
\* earlier call went to the network
C2_Witness ==
    /\ direct /\ gpc = "returned" /\ gi = 2
    /\ City \in DOMAIN city_coords_cache
    /\ result = city_coords_cache[City]
    /\ requests > 0
    /\ requests = Len(replies)

RECURSIVE Pow2(_)
Pow2(n) == IF n = 0 THEN 1 ELSE 2 * Pow2(n - 1)

Found(reply) == reply.status = 200 /\ reply.data # <<>>

\* the service answered 429 to every request but, at most, the last one, which
\* it answered with 200 and a result
Only429ThenFound ==
    /\ \A i \in 1..(Len(replies) - 1) : replies[i].status = 429
    /\ replies # <<>> =>
          (replies[Len(replies)].status = 429 \/ Found(replies[Len(replies)]))

Count429 == Cardinality({i \in 1..Len(replies) : replies[i].status = 429})

\* C3: when the service answers 429 k times and then 200 with a result,
\* get_osm_coordinates issues min(k + 1, retries) requests, sleeps 1, 2, 4, ...
\* seconds after the 429 answers, and returns the coordinates when
\* k < retries and (None, None) otherwise.
C3_RetryOn429 ==
    (/\ gpc = "returned"
     /\ ~Cached(city_coords_cache, City)
     /\ Only429ThenFound)
    => /\ Len(replies) = IF Count429 + 1 <= retries THEN Count429 + 1 ELSE retries
       /\ sleeps = [i \in 1..Count429 |-> Pow2(i - 1)]
       /\ (result # NotFound) <=> (Count429 < retries)
       /\ result # NotFound =>
             result = <<Float(replies[Len(replies)].data[1]),
                        Float(replies[Len(replies)].data[2])>>

\* three 429 answers, then the coordinates
C3_Witness ==
    /\ gpc = "returned"
    /\ Len(replies) = 4
    /\ \A i \in 1..3 : replies[i].status = 429
    /\ Found(replies[4])
    /\ sleeps = <<1, 2, 4>>
    /\ result # NotFound

\* every attempt answered 429: (None, None) after retries requests
C3_WitnessExhausted ==
    /\ gpc = "returned"
    /\ retries = DefaultRetries
    /\ Len(replies) = retries
    /\ \A i \in 1..Len(replies) : replies[i].status = 429
    /\ result = NotFound

\* a 429, another status that is not 200, or a 200 with an empty list
Failed(reply) == reply.status \in {429, 500} \/ (reply.status = 200 /\ reply.data = <<>>)

AllFailed == \A i \in 1..Len(replies) : Failed(replies[i])

\* C13: while every answer is a 429, another non-200 status or a 200 with no
\* result, get_osm_coordinates goes on until it has issued retries requests
\* and then returns (None, None); the caller then adds the city neither to
\* the coordinate cache nor to city_coords and goes on to the next city.
C13_ExhaustedGivesNotFoundAndSkip ==
    /\ [](/\ (gpc = "attempting" /\ AllFailed) => Len(replies) < retries
          /\ (gpc = "returned" /\ ~Cached(city_coords_cache, City) /\ AllFailed)
                => (result = NotFound /\ Len(replies) = retries))
    /\ [][(gpc = "returned" /\ result = NotFound)
            => /\ city_coords' = city_coords
               /\ city_coords_cache' = city_coords_cache
               /\ coord_file' = coord_file
               /\ requests' = requests
               /\ gi' = gi + 1
               /\ gpc' = "loop"]_vars

\* generate_germany_map has skipped its first city after five requests that
\* were answered by a 429, a 500 and an empty 200 among them
C13_Witness ==
    /\ ~direct /\ gpc = "loop" /\ gi = 2 /\ Len(cities) = 2
    /\ retries = DefaultRetries
    /\ Len(replies) = DefaultRetries
    /\ requests = DefaultRetries
    /\ AllFailed
    /\ {replies[i].status : i \in 1..Len(replies)} = {200, 429, 500}
    /\ result = NotFound
    /\ cities[1] \notin DOMAIN city_coords
    /\ cities[1] \notin DOMAIN city_coords_cache

\* C14: a request that ends in a network error is followed by a sleep of the
\* current backoff and by the next attempt or, after the last attempt, by the
\* return of (None, None); the run never ends at the failed request, so the
\* remaining cities are still processed.
C14_NetworkErrorIsRetried ==
    \A i \in 1..Len(replies) :
        NetworkError(replies[i]) =>
            /\ gpc \in {"attempting", "returned", "loop", "done"}
            /\ Len(sleeps) >= i
            /\ sleeps[i] = Pow2(i - 1)

\* C15: when get_osm_coordinates has returned coordinates to
\* generate_germany_map for a city that was not cached, the caller puts the
\* pair into city_coords and into the coordinate cache and sleeps one second,
\* whatever the two numbers are.
C15_SuccessIsRecorded ==
    [][(gpc = "returned" /\ ~direct /\ result # NotFound)
        => /\ city_coords' = Put(city_coords, City, result)
           /\ city_coords_cache' = Put(city_coords_cache, City, result)
           /\ sleeps' = Append(sleeps, 1)]_vars

\* C16, as claimed: between two cities of generate_germany_map the cache file
\* equals the coordinate cache in memory.
C16_FileFollowsEveryInsertion ==
    (~direct /\ gpc = "loop") => coord_file = city_coords_cache

\* C16, amended: generate_germany_map writes the cache file once, after the
\* loop over the cities has ended: no step of the loop changes the file, and
\* when the run is done the file equals the coordinate cache in memory.
C16_FileWrittenOnceAfterLoop ==
    /\ [][(~direct /\ ~(gpc = "loop" /\ gi > Len(cities)))
            => coord_file' = coord_file]_vars
    /\ []((~direct /\ gpc = "done") => coord_file = city_coords_cache)

\* two cities were resolved over the network and the run is done
C16_Witness ==
    /\ ~direct /\ gpc = "done"
    /\ Len(cities) = 2
    /\ requests >= 2
    /\ DOMAIN city_coords_cache = {cities[1], cities[2]}
    /\ coord_file = city_coords_cache

-----------------------------------------------------------------------------
(* The raw responses parse_openai_response is applied to                   *)

MaxLines == 3

Values == {<<"Agree">>, <<" ", "Disagree", " ">>, <<"x">>, <<>>}

Tails == {<<"x">>, <<"Disagree">>}

\* a line with no ": ", with one, with two
LineSet ==
    Values \cup {<<"k", ":", "x">>}
    \cup {<<"k">> \o ColonSpace \o v : v \in Values}
    \cup {<<"k">> \o ColonSpace \o v \o ColonSpace \o t : v \in Values, t \in Tails}

RawResponses ==
    {Join(ls, Newline) : ls \in UNION {[1..n -> LineSet] : n \in 1..MaxLines}}
    \cup {NoneResponse}

ParseInit ==
    /\ response \in RawResponses
    /\ parsed = <<>>
    /\ ppc = "ready"
    /\ GeoIdle
    /\ RowsIdle

Parse ==
    /\ ppc = "ready"
    /\ parsed' = ParseOpenaiResponse(response)
    /\ ppc' = "done"
    /\ UNCHANGED response
    /\ UNCHANGED <<geoVars, rowVars>>

ParseNext == Parse

ParseSpec == ParseInit /\ [][ParseNext]_vars

-----------------------------------------------------------------------------
(* Claims about parse_openai_response, checked under ParseSpec             *)

ResponseLines == Split(response, Newline)

\* what follows the first ": " of a line
AfterFirst(line) ==
    SubSeq(line, Min(Occurrences(line, ColonSpace)) + Len(ColonSpace), Len(line))

\* C1: when a response parses and its line 1 holds ": ", the returned strategy
\* is the whole remainder of line 1 after the first ": ", trimmed, further
\* ": " included.
C1_StrategyIsWholeRemainder ==
    (/\ ppc = "done"
     /\ response # NoneResponse
     /\ parsed # ErrorTriple)
    => parsed[2] = Strip(AfterFirst(ResponseLines[2]))

\* the cases of C10 in which the extraction fails
ExtractionFails ==
    \/ response = NoneResponse
    \/ LET lines == ResponseLines
       IN  \/ Len(lines) < 2
           \/ Occurrences(lines[1], ColonSpace) = {}
           \/ Occurrences(lines[2], ColonSpace) = {}
           \/ /\ Len(lines) > 2
              /\ Occurrences(lines[3], ColonSpace) = {}
              /\ Field(lines[1]) = Disagree

\* C10: parse returns a triple for every raw response, and the sentinel
\* ("Error", "Error", "Error") for every response whose extraction fails.
C10_FailureGivesSentinel ==
    ppc = "done" =>
        /\ Len(parsed) = 3
        /\ ExtractionFails => parsed = ErrorTriple

\* a response of three lines, Disagree, the explanation line without ": "
C10_Witness ==
    /\ ppc = "done"
    /\ response # NoneResponse
    /\ Len(ResponseLines) = 3
    /\ Occurrences(ResponseLines[1], ColonSpace) # {}
    /\ Occurrences(ResponseLines[2], ColonSpace) # {}
    /\ Occurrences(ResponseLines[3], ColonSpace) = {}
    /\ parsed = ErrorTriple

\* the trimmed text between the first ": " of a line and the next one
FirstField(line) == Strip(Split(AfterFirst(line), ColonSpace)[1])

C11_WitnessDisagree ==
    /\ ppc = "done"
    /\ response # NoneResponse
    /\ Len(ResponseLines) = 3
    /\ parsed[1] = <<"Disagree">>
    /\ parsed[3] = <<"x">>

AgreementValues == {<<"Agree">>, <<"Disagree">>, <<"Invalid">>, <<"Error">>}

-----------------------------------------------------------------------------
(* validation.py: process_csv_and_save                                     *)

MaxRows == 2

RequiredColumns ==
    {"Company_Name", "City", "Country", "RE_Strategy_Codes", "RE_Strategy_Names",
     "Short_Description"}

\* a validation that accepts every set of columns
AcceptAnyColumns(cols, required) == TRUE

\* validate_columns
ValidateColumns(cols, required) == {col \in required : col \notin cols} = {}

\* the strategy_dict argument: the known strategy codes
StrategyDict == {<<"R1">>, <<"R2">>}

\* every strategy code passes the validation
AnyStrategyCode(strategy_code, strategy_dict) == TRUE

\* validate_strategy_code
ValidateStrategyCode(strategy_code, strategy_dict) == strategy_code \in strategy_dict

\* get_cache_key: f"{company_name}_{city}_{country}_{strategy_code}"
GetCacheKey(company_name, city, country, strategy_code) ==
    company_name \o <<"_">> \o city \o <<"_">> \o country \o <<"_">> \o strategy_code

\* a response that is never put into the cache
StoreNothing(mapping, cache_key, raw) == mapping

\* a response that is parsed first and cached only when it parses
StoreUnlessMalformed(mapping, cache_key, raw) ==
    IF ParseOpenaiResponse(raw) = ErrorTriple THEN mapping
    ELSE Put(mapping, cache_key, raw)

\* cache[cache_key] = response
StoreResponse(mapping, cache_key, raw) == Put(mapping, cache_key, raw)

\* a cache test that never finds the key
NeverInCache(mapping, cache_key) == FALSE

\* cache_key in cache
InCache(mapping, cache_key) == cache_key \in DOMAIN mapping

\* a handler that returns the exception's message
HandleRowErrorMessage(error_message) == error_message

\* handle_row_error: logs error_message, returns a fixed text
HandleRowError(error_message) ==
    <<"Error", " ", "in", " ", "OpenAI", " ", "response">>

\* a save_cache that leaves the file as it is
KeepFile(mapping, file) == file

\* save_cache: json.dump of the whole mapping over the old file
SaveCacheFile(mapping, file) == mapping

\* a cache entry written before the call of the endpoint has returned
CachePlaceholderOnRaise(mapping, cache_key) == Put(mapping, cache_key, <<"garbage">>)

\* line 139 raises: the assignment of line 142 is not reached
CacheAfterRaise(mapping, cache_key) == mapping

\* an except block that adds no explanation entry
ExceptRowNoExplanation(lists, error_message) ==
    <<Append(lists[1], <<"Error">>), Append(lists[2], <<"Error">>), lists[3]>>

\* the except block, lines 158-161, on <<agreements, strategies, explanations>>
ExceptRow(lists, error_message) ==
    <<Append(lists[1], <<"Error">>),
      Append(lists[2], <<"Error">>),
      Append(lists[3], HandleRowError(error_message))>>

\* an except block that ends the job
AbortAfterException == "aborted"

\* after the except block the for loop goes on with the next row
AfterException == "row"

\* a float nan in the RE_Strategy_Codes cell (an empty CSV cell)
NaN == <<"nan">>

\* str(e) of the AttributeError that nan.split raises
NaNSplitMessage == <<"'float' object has no attribute 'split'">>

\* str(e) of an exception that get_openai_response raises
CallErrorMessages == {<<"Connection", " ", "error.">>}

AgreeResponse ==
    <<"Agreement", ":", " ", "Agree", "\n",
      "Strategy", ":", " ", "R1", ":", " ", "Reduce">>

DisagreeResponse ==
    <<"Agreement", ":", " ", "Disagree", "\n",
      "Strategy", ":", " ", "R3", ":", " ", "Recycle", "\n",
      "Explanation", ":", " ", "wrong", " ", "category">>

GarbageResponse == <<"garbage">>

\* an explanation that holds a comma and a space
CommaResponse ==
    <<"Agreement", ":", " ", "Disagree", "\n",
      "Strategy", ":", " ", "R3", "\n",
      "Explanation", ":", " ", "no", ",", " ", "wrong">>

\* what get_openai_response may return
EndpointResponses == {AgreeResponse, DisagreeResponse, GarbageResponse, CommaResponse}

\* three companies; the cache keys of the first two are the same text
CompanyAB == [Company_Name |-> <<"A", "_", "B">>, City |-> <<"C">>, Country |-> <<"DE">>]
CompanyA == [Company_Name |-> <<"A">>, City |-> <<"B", "_", "C">>, Country |-> <<"DE">>]
CompanyD == [Company_Name |-> <<"D">>, City |-> <<"C">>, Country |-> <<"DE">>]

\* RE_Strategy_Codes cells: one code, two codes, the same code twice, an
\* unknown code, an empty cell
CodeCells ==
    {<<"R1">>, <<"R2", ",", " ", "R1">>, <<"R1", ",", " ", "R1">>,
     <<"ZZ", ",", " ", "R1">>, NaN}

InputRow(c, cell) ==
    [Company_Name |-> c.Company_Name, City |-> c.City, Country |-> c.Country,
     RE_Strategy_Codes |-> cell]

\* parse_openai_response on every response the endpoint may return
ParsedResponse == [raw \in EndpointResponses |-> ParseOpenaiResponse(raw)]

\* row['RE_Strategy_Codes'].split(", ") on every cell that is a string
SplitCodes == [cell \in CodeCells \ {NaN} |-> Split(cell, CommaSpace)]

RowPool ==
    {InputRow(CompanyAB, <<"ZZ", ",", " ", "R1">>),
     InputRow(CompanyA, <<"R1", ",", " ", "R1">>), InputRow(CompanyA, NaN),
     InputRow(CompanyD, <<"R1">>), InputRow(CompanyD, <<"R2", ",", " ", "R1">>)}

Inputs == UNION {[1..n -> RowPool] : n \in 0..MaxRows}

\* the cache keys of the valid strategy codes of a row
RowKeys(row) ==
    IF row.RE_Strategy_Codes = NaN THEN {}
    ELSE LET codes == Split(row.RE_Strategy_Codes, CommaSpace)
         IN  {GetCacheKey(row.Company_Name, row.City, row.Country, codes[n]) :
                n \in {m \in 1..Len(codes) : codes[m] \in StrategyDict}}

ValidKeys(input) == UNION {RowKeys(input[i]) : i \in 1..Len(input)}

\* the cache files an earlier job may have left: none, or one that holds a
\* response for every valid key of the input
EarlierCacheFiles(input) ==
    {EmptyMap, [k \in ValidKeys(input) |-> DisagreeResponse]}

RowsInit ==
    /\ ParseIdle
    /\ GeoIdle
    /\ columns \in {RequiredColumns, RequiredColumns \ {"Short_Description"}}
    /\ rows \in Inputs
    /\ cache_file \in EarlierCacheFiles(rows)
    /\ cache = EmptyMap
    /\ run = 1
    /\ pc = "start"
    /\ ri = 1
    /\ strategy_codes = <<>>
    /\ ci = 1
    /\ row_agreements = <<>> /\ row_strategies = <<>> /\ row_explanations = <<>>
    /\ openai_agreements = <<>> /\ openai_strategies = <<>>
    /\ openai_explanations = <<>>
    /\ output = NoFile
    /\ calls = 0 /\ lookups = 0 /\ saves = 0
    /\ received = {}
    /\ raised = {}
    /\ errors = EmptyMap
    /\ history = <<>>

Row == rows[ri]

StrategyCode == strategy_codes[ci]

CacheKey == GetCacheKey(Row.Company_Name, Row.City, Row.Country, StrategyCode)

\* lines 88-101: load_cache, validate_columns, the empty result lists
Start ==
    /\ pc = "start"
    /\ cache' = cache_file
    /\ pc' = IF ValidateColumns(columns, RequiredColumns) THEN "row" ELSE "aborted"
    /\ UNCHANGED <<columns, rows, run, ri, strategy_codes, ci, rowLists, outLists,
                   output, cache_file, calls, lookups, saves, received, raised,
                   errors, history>>

\* the except block for the row at hand, and on to the next row
CatchRowException(error_message) ==
    /\ openai_agreements' = ExceptRow(outLists, error_message)[1]
    /\ openai_strategies' = ExceptRow(outLists, error_message)[2]
    /\ openai_explanations' = ExceptRow(outLists, error_message)[3]
    /\ errors' = Put(errors, ri, error_message)
    /\ pc' = AfterException
    /\ ri' = ri + 1

\* lines 104-115: the next row, its cells, the split of its strategy codes
BeginRow ==
    /\ pc = "row" /\ ri <= Len(rows)
    /\ IF Row.RE_Strategy_Codes = NaN
       THEN /\ CatchRowException(NaNSplitMessage)
            /\ UNCHANGED <<strategy_codes, ci, rowLists>>
       ELSE /\ strategy_codes' = SplitCodes[Row.RE_Strategy_Codes]
            /\ ci' = 1
            /\ row_agreements' = <<>>
            /\ row_strategies' = <<>>
            /\ row_explanations' = <<>>
            /\ pc' = "codes"
            /\ UNCHANGED <<ri, outLists, errors>>
    /\ UNCHANGED <<columns, rows, run, output, cacheVars, history>>

\* lines 146-151: parse the response and append the three values
AppendParsed(raw) ==
    /\ row_agreements' = Append(row_agreements, ParsedResponse[raw][1])
    /\ row_strategies' = Append(row_strategies, ParsedResponse[raw][2])
    /\ row_explanations' = Append(row_explanations, ParsedResponse[raw][3])
    /\ ci' = ci + 1

\* lines 120-124: a strategy code that is not in strategy_dict
InvalidCode ==
    /\ pc = "codes" /\ ci <= Len(strategy_codes)
    /\ ~ValidateStrategyCode(StrategyCode, StrategyDict)
    /\ row_agreements' = Append(row_agreements, <<"Invalid">>)
    /\ row_strategies' =
          Append(row_strategies,
                 <<"Invalid", " ", "strategy", " ", "code", ":", " ">> \o StrategyCode)
    /\ row_explanations' = Append(row_explanations, <<>>)
    /\ ci' = ci + 1
    /\ UNCHANGED <<columns, rows, run, pc, ri, strategy_codes, outLists, output,
                   cacheVars, errors, history>>

\* lines 127-132, 146-151: the key is in the cache
CachedCode ==
    /\ pc = "codes" /\ ci <= Len(strategy_codes)
    /\ ValidateStrategyCode(StrategyCode, StrategyDict)
    /\ lookups' = lookups + 1
    /\ InCache(cache, CacheKey)
    /\ AppendParsed(cache[CacheKey])
    /\ UNCHANGED <<columns, rows, run, pc, ri, strategy_codes, outLists, output,
                   cache, cache_file, calls, saves, received, raised, errors,
                   history>>

\* lines 127-151: a miss; the endpoint returns raw
Classify(raw) ==
    /\ pc = "codes" /\ ci <= Len(strategy_codes)
    /\ ValidateStrategyCode(StrategyCode, StrategyDict)
    /\ lookups' = lookups + 1
    /\ ~InCache(cache, CacheKey)
    /\ calls' = calls + 1
    /\ received' = received \cup {<<CacheKey, raw>>}
    /\ cache' = StoreResponse(cache, CacheKey, raw)
    /\ cache_file' = SaveCacheFile(StoreResponse(cache, CacheKey, raw), cache_file)
    /\ saves' = saves + 1
    /\ AppendParsed(raw)
    /\ UNCHANGED <<columns, rows, run, pc, ri, strategy_codes, outLists, output,
                   raised, errors, history>>

\* lines 127-139, 158-161: a miss; get_openai_response raises
ClassifyRaises(error_message) ==
    /\ pc = "codes" /\ ci <= Len(strategy_codes)
    /\ ValidateStrategyCode(StrategyCode, StrategyDict)
    /\ lookups' = lookups + 1
    /\ ~InCache(cache, CacheKey)
    /\ calls' = calls + 1
    /\ raised' = raised \cup {CacheKey}
    /\ cache' = CacheAfterRaise(cache, CacheKey)
    /\ CatchRowException(error_message)
    /\ UNCHANGED <<columns, rows, run, strategy_codes, ci, rowLists, output,
                   cache_file, saves, received, history>>

\* lines 153-156: the row's results joined into the three result lists
EndRow ==
    /\ pc = "codes" /\ ci > Len(strategy_codes)
    /\ openai_agreements' = Append(openai_agreements, Join(row_agreements, CommaSpace))
    /\ openai_strategies' = Append(openai_strategies, Join(row_strategies, CommaSpace))
    /\ openai_explanations' =
          Append(openai_explanations, Join(row_explanations, CommaSpace))
    /\ ri' = ri + 1
    /\ pc' = "row"
    /\ UNCHANGED <<columns, rows, run, strategy_codes, ci, rowLists, output,
                   cacheVars, errors, history>>

\* lines 163-174: the length check (line 164 for the agreements, the column
\* assignments of lines 169-170 for the other two), then the output CSV
Finish ==
    /\ pc = "row" /\ ri > Len(rows)
    /\ IF \/ Len(openai_agreements) # Len(rows)
          \/ Len(openai_strategies) # Len(rows)
          \/ Len(openai_explanations) # Len(rows)
       THEN pc' = "fatal" /\ output' = output
       ELSE pc' = "written" /\ output' = outLists
    /\ UNCHANGED <<columns, rows, run, ri, strategy_codes, ci, rowLists, outLists,
                   cacheVars, errors, history>>

\* the job is run a second time over the same input
Rerun ==
    /\ run = 1 /\ pc \in {"written", "aborted", "fatal"}
    /\ run' = 2
    /\ history' = [output |-> output, errors |-> errors, cache_file |-> cache_file,
                   pc |-> pc]
    /\ pc' = "start"
    /\ ri' = 1 /\ ci' = 1
    /\ strategy_codes' = <<>>
    /\ row_agreements' = <<>> /\ row_strategies' = <<>> /\ row_explanations' = <<>>
    /\ openai_agreements' = <<>> /\ openai_strategies' = <<>>
    /\ openai_explanations' = <<>>
    /\ cache' = EmptyMap
    /\ calls' = 0 /\ lookups' = 0 /\ saves' = 0
    /\ errors' = EmptyMap
    /\ UNCHANGED <<columns, rows, output, cache_file, received, raised>>

RowsNext ==
    \/ Start /\ UNCHANGED <<parseVars, geoVars>>
    \/ BeginRow /\ UNCHANGED <<parseVars, geoVars>>
    \/ InvalidCode /\ UNCHANGED <<parseVars, geoVars>>
    \/ CachedCode /\ UNCHANGED <<parseVars, geoVars>>
    \/ (\E raw \in EndpointResponses : Classify(raw)) /\ UNCHANGED <<parseVars, geoVars>>
    \/ (\E msg \in CallErrorMessages : ClassifyRaises(msg))
          /\ UNCHANGED <<parseVars, geoVars>>
    \/ EndRow /\ UNCHANGED <<parseVars, geoVars>>
    \/ Finish /\ UNCHANGED <<parseVars, geoVars>>
    \/ Rerun /\ UNCHANGED <<parseVars, geoVars>>

Spec == RowsInit /\ [][RowsNext]_vars

\* the job runs to its end: every call of the endpoint returns or raises
LiveSpec == Spec /\ WF_vars(RowsNext)

-----------------------------------------------------------------------------
(* Claims about process_csv_and_save, checked under Spec and LiveSpec      *)

SecondRunWithFullCache ==
    /\ run = 2
    /\ pc # "start"
    /\ ValidKeys(rows) \subseteq DOMAIN history.cache_file

SecondRunLeavesCacheAlone ==
    /\ calls = 0
    /\ cache = history.cache_file
    /\ cache_file = history.cache_file

\* the rows that ended in the except block in the first run
FirstRunRaised == DOMAIN history.errors

\* C4, as claimed: a second run that starts with every valid key of the input
\* in the ResponseCache makes no call, leaves the cache as it is and writes
\* the same three columns as the first run.
C4_SecondRunSameColumns ==
    SecondRunWithFullCache =>
        /\ SecondRunLeavesCacheAlone
        /\ pc = "written" => output = history.output

\* C4, amended: a second run that starts with every valid key of the input in
\* the ResponseCache makes no call, leaves the cache in memory and on disk as
\* it is, and writes the same three column values as the first run for every
\* row whose processing did not raise in the first run.
C4_SecondRunSameColumnsWhereNoneRaised ==
    SecondRunWithFullCache =>
        /\ SecondRunLeavesCacheAlone
        /\ pc = "written" =>
              /\ \A n \in 1..3 : Len(output[n]) = Len(history.output[n])
              /\ \A i \in (1..Len(rows)) \ FirstRunRaised :
                    \A n \in 1..3 : output[n][i] = history.output[n][i]

\* the second run has written its output from the cache the first run filled
C4_Witness ==
    /\ run = 2 /\ pc = "written"
    /\ Len(rows) = 2
    /\ history.cache_file # EmptyMap
    /\ ValidKeys(rows) = DOMAIN history.cache_file
    /\ lookups >= 2
    /\ calls = 0
    /\ output = history.output

\* C5: the ResponseCache is saved after every miss: between any two steps of
\* the row loop the cache file equals the cache in memory and holds every
\* response the endpoint has returned so far, under its key.
C5_FileHoldsEveryResponse ==
    /\ \A p \in received : p[1] \in DOMAIN cache_file /\ cache_file[p[1]] = p[2]
    /\ pc \in {"row", "codes", "written"} => cache_file = cache

\* one response is on disk and the next code of the row is about to be sent
C5_Witness ==
    /\ pc = "codes" /\ ci = 2 /\ ci <= Len(strategy_codes)
    /\ calls = 1 /\ saves = 1
    /\ Cardinality(received) = 1
    /\ StrategyCode \in StrategyDict
    /\ CacheKey \notin DOMAIN cache
    /\ \E p \in received : cache_file[p[1]] = p[2]

\* C6: every row, failed or not, adds exactly one entry to each of the three
\* result lists, so after the row loop each list has as many entries as the
\* input has rows; the output is written only with that many entries per
\* column, and a run that ends with the fatal error writes no output.
C6_OneEntryPerRow ==
    /\ pc \in {"row", "codes"} =>
          /\ Len(openai_agreements) = ri - 1
          /\ Len(openai_strategies) = ri - 1
          /\ Len(openai_explanations) = ri - 1
    /\ pc = "written" =>
          /\ ri = Len(rows) + 1
          /\ \A n \in 1..3 : Len(output[n]) = Len(rows)
    /\ (pc = "fatal" /\ run = 1) => output = NoFile

\* the loop is over for two rows, the second of which raised
C6_Witness ==
    /\ run = 1 /\ pc = "row" /\ ri > Len(rows)
    /\ Len(rows) = 2
    /\ DOMAIN errors = {2}
    /\ Len(openai_agreements) = 2
    /\ Len(openai_strategies) = 2
    /\ Len(openai_explanations) = 2

\* C7, as claimed: a row whose processing raised has agreement "Error",
\* strategy "Error" and, as explanation, the message of the exception.
C7_ExplanationIsExceptionMessage ==
    \A i \in DOMAIN errors :
        /\ openai_agreements[i] = <<"Error">>
        /\ openai_strategies[i] = <<"Error">>
        /\ openai_explanations[i] = errors[i]

ErrorInOpenAIResponse == <<"Error", " ", "in", " ", "OpenAI", " ", "response">>

\* C7, amended: a row whose processing raised has agreement "Error", strategy
\* "Error" and, as explanation, the fixed text "Error in OpenAI response"; the
\* message of the exception is logged only.
C7_ExplanationIsFixedText ==
    /\ \A i \in DOMAIN errors :
          /\ openai_agreements[i] = <<"Error">>
          /\ openai_strategies[i] = <<"Error">>
          /\ openai_explanations[i] = ErrorInOpenAIResponse
    /\ pc = "written" =>
          \A i \in DOMAIN errors :
              /\ output[1][i] = <<"Error">>
              /\ output[2][i] = <<"Error">>
              /\ output[3][i] = ErrorInOpenAIResponse

\* the classification call of a row raised and the output is written
C7_Witness ==
    /\ pc = "written"
    /\ \E i \in DOMAIN errors :
          /\ errors[i] \in CallErrorMessages
          /\ output[3][i] = ErrorInOpenAIResponse

\* C8: once a row has failed, the run still goes through every later row and
\* reaches the point where the output, one entry per row, is written.
C8_FailedRowDoesNotAbort ==
    (errors # EmptyMap) ~>
        (pc = "written" /\ ri = Len(rows) + 1 /\ Len(output[1]) = Len(rows))

\* the call of row 1 raised, row 2 was classified, the output is written
C8_Witness ==
    /\ run = 1 /\ pc = "written"
    /\ Len(rows) = 2
    /\ DOMAIN errors = {1}
    /\ errors[1] \in CallErrorMessages
    /\ calls = 2
    /\ output[1] = <<(<<"Error">>), (<<"Agree">>)>>

MissingColumns == RequiredColumns \ columns

\* C17: when a required column is missing, the job ends right after the
\* validation: no row is iterated, no cache test and no classification call is
\* made, the ResponseCache file is never written and no output is written.
C17_MissingColumnEndsJobBeforeRows ==
    /\ []((MissingColumns # {} /\ pc \notin {"idle", "start"})
            => /\ pc = "aborted"
               /\ ri = 1 /\ strategy_codes = <<>>
               /\ openai_agreements = <<>> /\ openai_strategies = <<>>
               /\ openai_explanations = <<>>
               /\ calls = 0 /\ lookups = 0 /\ saves = 0
               /\ received = {}
               /\ errors = EmptyMap
               /\ output = NoFile)
    /\ [][MissingColumns # {} => cache_file' = cache_file]_vars

\* the job has ended for an input of two rows and a filled cache file, one
\* required column missing
C17_Witness ==
    /\ pc = "aborted"
    /\ MissingColumns = {"Short_Description"}
    /\ Len(rows) = 2
    /\ cache_file # EmptyMap
    /\ cache = cache_file
    /\ output = NoFile

InvalidStrategyCodeText(strategy_code) ==
    <<"Invalid", " ", "strategy", " ", "code", ":", " ">> \o strategy_code

\* C9: the step for a strategy code that is not in the strategy dictionary
\* appends ("Invalid", "Invalid strategy code: <code>", "") to the row's
\* results, tests and writes no cache, saves no file, calls no endpoint, and
\* goes on with the next code of the row.
C9_InvalidCodeTouchesNothing ==
    [][(/\ pc = "codes" /\ ci <= Len(strategy_codes)
        /\ StrategyCode \notin StrategyDict)
       => /\ row_agreements' = Append(row_agreements, <<"Invalid">>)
          /\ row_strategies' =
                Append(row_strategies, InvalidStrategyCodeText(StrategyCode))
          /\ row_explanations' = Append(row_explanations, <<>>)
          /\ UNCHANGED cacheVars
          /\ pc' = "codes" /\ ci' = ci + 1 /\ ri' = ri]_vars

\* row 1 is "ZZ, R1": ZZ is marked invalid, R1 and row 2 are classified
C9_Witness ==
    /\ run = 1 /\ pc = "written"
    /\ Len(rows) = 2
    /\ rows[1].RE_Strategy_Codes = <<"ZZ", ",", " ", "R1">>
    /\ rows[1].Company_Name # rows[2].Company_Name
    /\ output[1] = <<(<<"Invalid", ",", " ", "Agree">>), (<<"Agree">>)>>
    /\ output[2][1] = InvalidStrategyCodeText(<<"ZZ">>) \o CommaSpace \o <<"R1">>
    /\ output[3][1] = CommaSpace
    /\ calls = 2 /\ lookups = 2 /\ saves = 2

\* the strategy codes of row i; none for an empty cell
RowCodes(i) ==
    IF rows[i].RE_Strategy_Codes = NaN THEN <<>>
    ELSE SplitCodes[rows[i].RE_Strategy_Codes]

\* what the k-th code of row i contributes to the three columns of a row that
\* did not raise: the Invalid triple, or the parsed response held for its key
CodeResult(i, k) ==
    IF RowCodes(i)[k] \notin StrategyDict
    THEN <<(<<"Invalid">>), InvalidStrategyCodeText(RowCodes(i)[k]), (<<>>)>>
    ELSE ParsedResponse[cache[GetCacheKey(rows[i].Company_Name, rows[i].City,
                                          rows[i].Country, RowCodes(i)[k])]]

ColumnEntries(i, n) == [k \in 1..Len(RowCodes(i)) |-> CodeResult(i, k)[n]]

HasCommaSpace(s) == Occurrences(s, CommaSpace) # {}

\* C18, as claimed: for every row of the written output, each of the three
\* columns split on ", " has one entry per strategy code of the row, entry k
\* being the result of code k.
C18_EveryRowAligned ==
    pc = "written" =>
        \A i \in 1..Len(rows) : \A n \in 1..3 :
            /\ Len(Split(output[n][i], CommaSpace)) = Len(RowCodes(i))
            /\ i \notin DOMAIN errors
                  => Split(output[n][i], CommaSpace) = ColumnEntries(i, n)

\* C18, amended: for every row of the written output whose processing did not
\* raise, each of the three columns is the ", "-join of the per-code values in
\* the order of the codes, and splitting it on ", " gives them back, one entry
\* per code, whenever none of the values of that column holds ", " itself.
C18_AlignedWhereNoRaiseAndNoComma ==
    pc = "written" =>
        \A i \in (1..Len(rows)) \ DOMAIN errors : \A n \in 1..3 :
            /\ output[n][i] = Join(ColumnEntries(i, n), CommaSpace)
            /\ (\A k \in 1..Len(RowCodes(i)) : ~HasCommaSpace(ColumnEntries(i, n)[k]))
                  => Split(output[n][i], CommaSpace) = ColumnEntries(i, n)

\* a row of two codes, the first unknown, the second answered with Disagree
C18_Witness ==
    /\ run = 1 /\ pc = "written"
    /\ errors = EmptyMap
    /\ Len(rows) >= 1
    /\ rows[1].RE_Strategy_Codes = <<"ZZ", ",", " ", "R1">>
    /\ Split(output[1][1], CommaSpace) = <<(<<"Invalid">>), (<<"Disagree">>)>>
    /\ Split(output[3][1], CommaSpace) = <<(<<>>), (<<"wrong", " ", "category">>)>>
    /\ calls >= 1

\* get_cache_key for the k-th code of row i
KeyOf(i, k) ==
    GetCacheKey(rows[i].Company_Name, rows[i].City, rows[i].Country, RowCodes(i)[k])

\* C19: when the key of the request at hand is computed, every request of the
\* rows so far that has the same key has the same company name, city, country
\* and strategy code, so a response found under the key was obtained for
\* exactly this request.
C19_KeyIsInjective ==
    (pc = "codes" /\ ci <= Len(strategy_codes) /\ StrategyCode \in StrategyDict)
    => \A i \in 1..ri : \A k \in 1..Len(RowCodes(i)) :
          (RowCodes(i)[k] \in StrategyDict /\ KeyOf(i, k) = CacheKey)
          => /\ rows[i].Company_Name = Row.Company_Name
             /\ rows[i].City = Row.City
             /\ rows[i].Country = Row.Country
             /\ RowCodes(i)[k] = StrategyCode

ReceivedKeys == {p[1] : p \in received}

\* C20: a call of the endpoint that raises leaves the ResponseCache as it
\* was, in memory and on disk; a key whose call raised and for which no
\* response was received since has no entry in either, and the next time it
\* is looked up, in this run or the next, the endpoint is called again.
C20_RaisedCallLeavesCacheAlone ==
    /\ [](\A k \in raised \ ReceivedKeys :
              k \notin DOMAIN cache /\ k \notin DOMAIN cache_file)
    /\ [][/\ (calls' = calls + 1 /\ errors' # errors)
              => /\ cache' = cache /\ cache_file' = cache_file /\ saves' = saves
                 /\ CacheKey \in raised'
                 /\ CacheKey \notin DOMAIN cache'
          /\ (pc = "codes" /\ ci <= Len(strategy_codes)
                /\ StrategyCode \in StrategyDict
                /\ CacheKey \in raised \ ReceivedKeys)
              => (lookups' = lookups + 1 /\ calls' = calls + 1)]_vars

\* the call for a key raised in the first run; the second run called the
\* endpoint for it again and holds its response
C20_Witness ==
    /\ run = 2 /\ pc = "written"
    /\ history.errors # EmptyMap
    /\ history.cache_file = EmptyMap
    /\ calls = 1
    /\ \E k \in raised : k \in DOMAIN cache /\ k \in DOMAIN cache_file

\* the response the endpoint returned for a key
ReceivedFor(k) == (CHOOSE p \in received : p[1] = k)[2]

\* C21: the endpoint returns a response only for a key for which it has
\* returned none before, so no key has two responses; every later occurrence
\* of the key, in another row or in the same row's code list, makes no call
\* and appends what the response held in the cache for the key parses to.
C21_OneResponsePerKey ==
    /\ [](Cardinality(received) = Cardinality(ReceivedKeys))
    /\ [][/\ (received' # received \/ saves' = saves + 1)
              => /\ CacheKey \notin ReceivedKeys
                 /\ CacheKey \in DOMAIN cache'
                 /\ received' = received \cup {<<CacheKey, cache'[CacheKey]>>}
          /\ (pc = "codes" /\ ci <= Len(strategy_codes)
                /\ StrategyCode \in StrategyDict
                /\ CacheKey \in ReceivedKeys)
              => /\ calls' = calls /\ saves' = saves /\ received' = received
                 /\ cache' = cache
                 /\ cache[CacheKey] = ReceivedFor(CacheKey)
                 /\ row_agreements' =
                       Append(row_agreements, ParsedResponse[ReceivedFor(CacheKey)][1])
                 /\ row_explanations' =
                       Append(row_explanations, ParsedResponse[ReceivedFor(CacheKey)][3])]_vars

\* two rows with the code list "R1, R1" and the same key: four lookups, one
\* call, one response
C21_Witness ==
    /\ run = 1 /\ pc = "written"
    /\ Len(rows) = 2
    /\ rows[1] = rows[2]
    /\ rows[1].RE_Strategy_Codes = <<"R1", ",", " ", "R1">>
    /\ errors = EmptyMap
    /\ lookups = 4 /\ calls = 1 /\ saves = 1
    /\ Cardinality(received) = 1
    /\ output[1] = <<(<<"Disagree", ",", " ", "Disagree">>),
                     (<<"Disagree", ",", " ", "Disagree">>)>>

\* the responses of the endpoint that parse to ("Error", "Error", "Error")
MalformedResponses == {raw \in EndpointResponses : ParsedResponse[raw] = ErrorTriple}

AtValidCode ==
    pc = "codes" /\ ci <= Len(strategy_codes) /\ StrategyCode \in StrategyDict

\* C22: a malformed response is put into the ResponseCache and saved to the
\* file by the step that receives it, although it parses to the Error triple;
\* it stays in both, and every later lookup of its key makes no call and
\* appends ("Error", "Error", "Error") again.
C22_MalformedResponseStaysCached ==
    /\ [](\A p \in received :
              p[2] \in MalformedResponses
              => /\ p[1] \in DOMAIN cache_file /\ cache_file[p[1]] = p[2]
                 /\ pc \in {"row", "codes", "written"}
                       => (p[1] \in DOMAIN cache /\ cache[p[1]] = p[2]))
    /\ [][/\ (AtValidCode /\ \E raw \in MalformedResponses :
                                  <<CacheKey, raw>> \in received' \ received)
              => /\ CacheKey \in DOMAIN cache' /\ CacheKey \in DOMAIN cache_file'
                 /\ cache'[CacheKey] \in MalformedResponses
                 /\ cache_file'[CacheKey] = cache'[CacheKey]
                 /\ saves' = saves + 1
                 /\ row_agreements' = Append(row_agreements, <<"Error">>)
          /\ (AtValidCode /\ \E raw \in MalformedResponses :
                                  <<CacheKey, raw>> \in received)
              => /\ calls' = calls /\ saves' = saves
                 /\ cache' = cache /\ cache_file' = cache_file
                 /\ row_agreements' = Append(row_agreements, <<"Error">>)
                 /\ row_strategies' = Append(row_strategies, <<"Error">>)
                 /\ row_explanations' = Append(row_explanations, <<"Error">>)
                 /\ ci' = ci + 1 /\ pc' = "codes"]_vars

\* the first run received a malformed response for the only key; the second
\* run made no call and wrote the Error triple for the row, no row raised
C22_Witness ==
    /\ run = 2 /\ pc = "written"
    /\ Len(rows) = 1
    /\ history.errors = EmptyMap /\ errors = EmptyMap
    /\ Cardinality(received) = 1
    /\ \A p \in received : p[2] \in MalformedResponses /\ cache_file[p[1]] = p[2]
    /\ lookups = 1 /\ calls = 0
    /\ output = <<(<<(<<"Error">>)>>), (<<(<<"Error">>)>>), (<<(<<"Error">>)>>)>>

====
